---- MODULE Spec2Model ----
(***************************************************************************)
(* Golden Dawn Tarot AI Service (src/main.py): the reading pipeline        *)
(* draw_cards -> get_ai_interpretation -> save_reading behind              *)
(* POST /reading, and the lookup behind GET /reading/{id}.                 *)
(*                                                                         *)
(* Python values are modelled as follows.  A str is a sequence of chunks   *)
(* (TLA+ strings), the pieces an f-string or a literal contributes, so     *)
(* that concatenation is \o and "contains" is chunk membership.  A value   *)
(* of an Optional/Any field is a tagged scalar (PyNone, PyStr, PyInt,      *)
(* PyBool); a dict is a record; a list is a sequence.                      *)
(***************************************************************************)
EXTENDS Integers, Sequences, FiniteSets, TLC

(* ------------------------------ bounds --------------------------------- *)

\* the state of the random generator at a call of draw_cards is in 0..MaxSeed
MaxSeed == 1
\* draw_cards is called directly with count in -1..MaxCount
MaxCount == 24
\* the wall clock runs over the seconds 0..MaxClock
MaxClock == 1
\* random.randint(1000, 9999) is drawn from SuffixLo..SuffixLo+MaxSuffixSpan
MaxSuffixSpan == 0
\* a write that fails has put at most MaxCut tokens into the file
MaxCut == 0
\* a run handles at most MaxRequests HTTP requests
MaxRequests == 2
\* at most MaxTasks POST /reading requests are in flight together
MaxTasks == 2

(* --------------------------- Python values ----------------------------- *)

PyNone == [t |-> "none", s |-> <<>>, n |-> 0, b |-> FALSE]

PyStr(chunks) == [t |-> "str", s |-> chunks, n |-> 0, b |-> FALSE]

PyInt(i) == [t |-> "int", s |-> <<>>, n |-> i, b |-> FALSE]

PyBool(x) == [t |-> "bool", s |-> <<>>, n |-> 0, b |-> x]

\* Python truthiness of an Optional[str]: None and "" are falsy
Truthy(v) == v.t = "str" /\ v.s # <<>>

(* ------------------------------ catalogs ------------------------------- *)

\* class TarotCard, as card.dict() renders it: every field present,
\* the optional ones None when the table omits them
TarotCard(name, number, suit, element, up, rev, gd, hebrew, astro, path) ==
  [name |-> name, number |-> number, suit |-> suit, element |-> element,
   meaning_upright |-> up, meaning_reversed |-> rev,
   golden_dawn_correspondence |-> gd, hebrew_letter |-> hebrew,
   astrological_correspondence |-> astro, tree_of_life_path |-> path]

\* class TarotSpread
TarotSpread(name, positions, description, card_count) ==
  [name |-> name, positions |-> positions, description |-> description,
   card_count |-> card_count]

GOLDEN_DAWN_DECK ==
  [
   major_arcana |-> <<
      TarotCard(PyStr(<<"The Fool">>),
                PyInt(0),
                PyNone,
                PyStr(<<"Air">>),
                PyStr(<<"New beginnings, innocence, spontaneity, free spirit">>),
                PyStr(<<"Recklessness, taken advantage of, inconsistency, foolishness">>),
                PyStr(<<"Path of Aleph, Air element, Uranus">>),
                PyStr(<<"Aleph">>),
                PyStr(<<"Uranus">>),
                PyInt(11)),
      TarotCard(PyStr(<<"The Magician">>),
                PyInt(1),
                PyNone,
                PyStr(<<"Air">>),
                PyStr(<<"Manifestation, resourcefulness, power, inspired action">>),
                PyStr(<<"Manipulation, poor planning, untapped talents">>),
                PyStr(<<"Path of Beth, Mercury, Magus of Power">>),
                PyStr(<<"Beth">>),
                PyStr(<<"Mercury">>),
                PyInt(12)),
      TarotCard(PyStr(<<"The High Priestess">>),
                PyInt(2),
                PyNone,
                PyStr(<<"Water">>),
                PyStr(<<"Intuition, sacred knowledge, divine feminine, subconscious mind">>),
                PyStr(<<"Secrets, disconnected from intuition, withdrawal">>),
                PyStr(<<"Path of Gimel, Moon, Priestess of Silver Star">>),
                PyStr(<<"Gimel">>),
                PyStr(<<"Moon">>),
                PyInt(13)),
      TarotCard(PyStr(<<"The Empress">>),
                PyInt(3),
                PyNone,
                PyStr(<<"Earth">>),
                PyStr(<<"Femininity, beauty, nature, nurturing, abundance">>),
                PyStr(<<"Creative block, dependence on others, smothering">>),
                PyStr(<<"Path of Daleth, Venus, Daughter of Mighty Ones">>),
                PyStr(<<"Daleth">>),
                PyStr(<<"Venus">>),
                PyInt(14)),
      TarotCard(PyStr(<<"The Emperor">>),
                PyInt(4),
                PyNone,
                PyStr(<<"Fire">>),
                PyStr(<<"Authority, establishment, structure, father figure">>),
                PyStr(<<"Domination, excessive control, lack of discipline">>),
                PyStr(<<"Path of Heh, Aries, Son of Morning">>),
                PyStr(<<"Heh">>),
                PyStr(<<"Aries">>),
                PyInt(15)),
      TarotCard(PyStr(<<"The Hierophant">>),
                PyInt(5),
                PyNone,
                PyStr(<<"Earth">>),
                PyStr(<<"Spiritual wisdom, religious beliefs, conformity, tradition">>),
                PyStr(<<"Personal beliefs, freedom, challenging the status quo">>),
                PyStr(<<"Path of Vav, Taurus, Magus of Eternal">>),
                PyStr(<<"Vav">>),
                PyStr(<<"Taurus">>),
                PyInt(16)),
      TarotCard(PyStr(<<"The Lovers">>),
                PyInt(6),
                PyNone,
                PyStr(<<"Air">>),
                PyStr(<<"Love, harmony, relationships, values alignment">>),
                PyStr(<<"Disharmony, imbalance, misaligned values">>),
                PyStr(<<"Path of Zayin, Gemini, Children of Voice">>),
                PyStr(<<"Zayin">>),
                PyStr(<<"Gemini">>),
                PyInt(17)),
      TarotCard(PyStr(<<"The Chariot">>),
                PyInt(7),
                PyNone,
                PyStr(<<"Water">>),
                PyStr(<<"Control, willpower, success, determination">>),
                PyStr(<<"Self-discipline, opposition, lack of direction">>),
                PyStr(<<"Path of Cheth, Cancer, Child of Powers of Waters">>),
                PyStr(<<"Cheth">>),
                PyStr(<<"Cancer">>),
                PyInt(18)),
      TarotCard(PyStr(<<"Strength">>),
                PyInt(8),
                PyNone,
                PyStr(<<"Fire">>),
                PyStr(<<"Strength, courage, persuasion, influence, compassion">>),
                PyStr(<<"Self-doubt, low energy, raw emotion">>),
                PyStr(<<"Path of Teth, Leo, Daughter of Flaming Sword">>),
                PyStr(<<"Teth">>),
                PyStr(<<"Leo">>),
                PyInt(19)),
      TarotCard(PyStr(<<"The Hermit">>),
                PyInt(9),
                PyNone,
                PyStr(<<"Earth">>),
                PyStr(<<"Soul searching, introspection, inner guidance">>),
                PyStr(<<"Isolation, loneliness, withdrawal">>),
                PyStr(<<"Path of Yod, Virgo, Magus of Voice of Light">>),
                PyStr(<<"Yod">>),
                PyStr(<<"Virgo">>),
                PyInt(20)),
      TarotCard(PyStr(<<"Wheel of Fortune">>),
                PyInt(10),
                PyNone,
                PyStr(<<"Fire">>),
                PyStr(<<"Good luck, karma, life cycles, destiny, turning point">>),
                PyStr(<<"Bad luck, lack of control, clinging to control">>),
                PyStr(<<"Path of Kaph, Jupiter, Lord of Forces of Life">>),
                PyStr(<<"Kaph">>),
                PyStr(<<"Jupiter">>),
                PyInt(21)),
      TarotCard(PyStr(<<"Justice">>),
                PyInt(11),
                PyNone,
                PyStr(<<"Air">>),
                PyStr(<<"Justice, fairness, truth, cause and effect, law">>),
                PyStr(<<"Unfairness, lack of accountability, dishonesty">>),
                PyStr(<<"Path of Lamed, Libra, Daughter of Lords of Truth">>),
                PyStr(<<"Lamed">>),
                PyStr(<<"Libra">>),
                PyInt(22)),
      TarotCard(PyStr(<<"The Hanged Man">>),
                PyInt(12),
                PyNone,
                PyStr(<<"Water">>),
                PyStr(<<"Suspension, restriction, letting go, sacrifice">>),
                PyStr(<<"Martyrdom, indecision, delay">>),
                PyStr(<<"Path of Mem, Water, Spirit of Mighty Waters">>),
                PyStr(<<"Mem">>),
                PyStr(<<"Neptune">>),
                PyInt(23)) >>,
   wands |-> <<
      TarotCard(PyStr(<<"Ace of Wands">>),
                PyInt(1),
                PyStr(<<"Wands">>),
                PyStr(<<"Fire">>),
                PyStr(<<"Inspiration, new opportunities, growth">>),
                PyStr(<<"Lack of energy, lack of passion, boredom">>),
                PyStr(<<"Root of Fire, Kether in Fire">>),
                PyNone,
                PyNone,
                PyInt(1)) >>,
   cups |-> <<
      TarotCard(PyStr(<<"Ace of Cups">>),
                PyInt(1),
                PyStr(<<"Cups">>),
                PyStr(<<"Water">>),
                PyStr(<<"Love, new relationships, compassion, creativity">>),
                PyStr(<<"Self-love, intuition, repressed emotions">>),
                PyStr(<<"Root of Water, Kether in Water">>),
                PyNone,
                PyNone,
                PyInt(1)) >>,
   swords |-> <<
      TarotCard(PyStr(<<"Ace of Swords">>),
                PyInt(1),
                PyStr(<<"Swords">>),
                PyStr(<<"Air">>),
                PyStr(<<"New ideas, mental clarity, breakthrough">>),
                PyStr(<<"Inner clarity, re-thinking an idea, clouded judgment">>),
                PyStr(<<"Root of Air, Kether in Air">>),
                PyNone,
                PyNone,
                PyInt(1)) >>,
   pentacles |-> <<
      TarotCard(PyStr(<<"Ace of Pentacles">>),
                PyInt(1),
                PyStr(<<"Pentacles">>),
                PyStr(<<"Earth">>),
                PyStr(<<"New financial opportunity, manifestation, abundance">>),
                PyStr(<<"Lost opportunity, lack of planning, poor financial decisions">>),
                PyStr(<<"Root of Earth, Kether in Earth">>),
                PyNone,
                PyNone,
                PyInt(1)) >> ]

\* iteration order of GOLDEN_DAWN_DECK.values(): insertion order of the dict
DeckCategories == <<"major_arcana", "wands", "cups", "swords", "pentacles">>

SingleCardSpread ==
  TarotSpread(<<"Single Card">>,
        << <<"Guidance">> >>,
        <<"Simple single-card draw for quick guidance">>, 1)

ThreeCardSpread ==
  TarotSpread(<<"Past, Present, Future">>,
        << <<"Past/Foundation">>,
           <<"Present/Challenge">>,
           <<"Future/Outcome">> >>,
        <<"Simple three-card spread for quick insight">>, 3)

CelticCrossSpread ==
  TarotSpread(<<"Celtic Cross">>,
        << <<"Present Situation">>,
           <<"Challenge/Cross">>,
           <<"Distant Past/Foundation">>,
           <<"Recent Past">>,
           <<"Crown/Possible Outcome">>,
           <<"Immediate Future">>,
           <<"Your Approach">>,
           <<"External Influences">>,
           <<"Hopes and Fears">>,
           <<"Final Outcome">> >>,
        <<"The most comprehensive spread, exploring all aspects of your situation">>, 10)

TreeOfLifeSpread ==
  TarotSpread(<<"Tree of Life">>,
        << <<"Kether (Crown)">>,
           <<"Chokmah (Wisdom)">>,
           <<"Binah (Understanding)">>,
           <<"Chesed (Mercy)">>,
           <<"Geburah (Severity)">>,
           <<"Tiphareth (Beauty)">>,
           <<"Netzach (Victory)">>,
           <<"Hod (Glory)">>,
           <<"Yesod (Foundation)">>,
           <<"Malkuth (Kingdom)">> >>,
        <<"Based on the Kabbalistic Tree of Life, providing deep spiritual insight">>, 10)

GoldenDawnSpreadTenCards ==
  TarotSpread(<<"Golden Dawn Temple">>,
        << <<"Present Situation">>,
           <<"Hidden Influences">>,
           <<"Past Foundations">>,
           <<"Future Possibilities">>,
           <<"Higher Guidance">>,
           <<"Practical Action">>,
           <<"Inner Wisdom">>,
           <<"External Forces">>,
           <<"Final Outcome">> >>,
        <<"Sacred 9-card Golden Dawn spread using all available cards">>, 10)

GoldenDawnSpread ==
  TarotSpread(<<"Golden Dawn Temple">>,
        << <<"Present Situation">>,
           <<"Hidden Influences">>,
           <<"Past Foundations">>,
           <<"Future Possibilities">>,
           <<"Higher Guidance">>,
           <<"Practical Action">>,
           <<"Inner Wisdom">>,
           <<"External Forces">>,
           <<"Final Outcome">> >>,
        <<"Sacred 9-card Golden Dawn spread using all available cards">>, 9)

SevenPointedStarSpread ==
  TarotSpread(<<"Seven-Pointed Star">>,
        << <<"Self">>,
           <<"Past">>,
           <<"Future">>,
           <<"Hidden Influences">>,
           <<"External Forces">>,
           <<"Hopes/Fears">>,
           <<"Final Outcome">> >>,
        <<"Mystical 7-card spread for deep spiritual insight">>, 7)

\* the registry: spread identifier -> TarotSpread
TAROT_SPREADS ==
  [single_card |-> SingleCardSpread,
   three_card |-> ThreeCardSpread,
   celtic_cross |-> CelticCrossSpread,
   tree_of_life |-> TreeOfLifeSpread,
   golden_dawn |-> GoldenDawnSpread,
   seven_pointed_star |-> SevenPointedStarSpread]

(* ------------------------------- state --------------------------------- *)

VARIABLES
  spreads,   \* the global TAROT_SPREADS as the running process holds it
  store,     \* the readings directory: reading id -> content of <id>.json (JSON tokens)
  now,       \* the wall clock, in ticks
  request,   \* the request (or direct call) handled last
  response,  \* the HTTP response to it
  drawn,     \* what the last direct call of draw_cards returned (or that it raised)
  handled,   \* how many HTTP requests have been handled
  formatted, \* what the last direct call of _generate_basic_interpretation returned
  tasks      \* the POST /reading requests in flight on the event loop, and their answers

vars == <<spreads, store, now, request, response, drawn, handled, formatted, tasks>>

(* ----------------------------- Draw Engine ----------------------------- *)

RECURSIVE Flatten(_)
Flatten(seqs) == IF seqs = <<>> THEN <<>> ELSE Head(seqs) \o Flatten(Tail(seqs))

\* get_all_cards: every category in dict order, every card in list order
get_all_cards ==
  Flatten([c \in DOMAIN DeckCategories |-> GOLDEN_DAWN_DECK[DeckCategories[c]]])

\* the process-wide generator: the i-th value (i = 0, 1, ...) it hands out
\* after the state seed, reduced below m
RandBelow(seed, i, m) == (seed * (2 * i + 1) + i) % m

RECURSIVE SamplePool(_, _, _, _, _, _)
SamplePool(pool, n, k, i, seed, acc) ==
  IF i = k THEN acc
  ELSE LET j == RandBelow(seed, i, n - i)
       IN  SamplePool([pool EXCEPT ![j + 1] = pool[n - i]], n, k, i + 1, seed,
                      Append(acc, pool[j + 1]))

\* the same loop without moving the last pool entry into the hole: draws with
\* replacement
RECURSIVE SamplePoolReplace(_, _, _, _, _, _)
SamplePoolReplace(pool, n, k, i, seed, acc) ==
  IF i = k THEN acc
  ELSE LET j == RandBelow(seed, i, n - i)
       IN  SamplePoolReplace(pool, n, k, i + 1, seed, Append(acc, pool[j + 1]))

random_sample_replace(population, k, seed) ==
  IF k < 0 \/ k > Len(population)
  THEN [raised |-> TRUE, value |-> <<>>]
  ELSE [raised |-> FALSE,
        value |-> SamplePoolReplace(population, Len(population), k, 0, seed, <<>>)]

\* random.sample(population, k): ValueError when k is negative or larger than
\* the population, else k entries chosen without replacement (the pool loop)
random_sample(population, k, seed) ==
  IF k < 0 \/ k > Len(population)
  THEN [raised |-> TRUE, value |-> <<>>]
  ELSE [raised |-> FALSE,
        value |-> SamplePool(population, Len(population), k, 0, seed, <<>>)]

\* random.choice([True, False]) for the i-th of k sampled cards (i = 1, 2, ...):
\* the list entry at the index the generator gives next
random_choice(seed, k, i) == <<TRUE, FALSE>>[RandBelow(seed, k + i - 1, 2) + 1]

IsReversedIgnoringFlag(include_reversed, seed, k, i) == random_choice(seed, k, i)

\* is_reversed = random.choice([True, False]) if include_reversed else False
IsReversed(include_reversed, seed, k, i) ==
  IF include_reversed THEN random_choice(seed, k, i) ELSE FALSE

\* one entry of draw_cards' result
DrawnCard(card, is_reversed) ==
  [card |-> card,
   reversed |-> PyBool(is_reversed),
   meaning |-> IF is_reversed THEN card.meaning_reversed ELSE card.meaning_upright,
   orientation |-> IF is_reversed THEN PyStr(<<"Reversed">>) ELSE PyStr(<<"Upright">>)]

OrientCardsSkipsLast(sample, include_reversed, seed) ==
  IF sample.raised
  THEN [raised |-> TRUE, value |-> <<>>]
  ELSE [raised |-> FALSE,
        value |-> [i \in 1..(Len(sample.value) - 1) |->
                     DrawnCard(sample.value[i],
                               IsReversed(include_reversed, seed, Len(sample.value), i))]]

\* the loop of draw_cards over the sampled cards: each gets its orientation
OrientCards(sample, include_reversed, seed) ==
  IF sample.raised
  THEN [raised |-> TRUE, value |-> <<>>]
  ELSE [raised |-> FALSE,
        value |-> [i \in 1..Len(sample.value) |->
                     DrawnCard(sample.value[i],
                               IsReversed(include_reversed, seed, Len(sample.value), i))]]

\* if count > len(all_cards): count = len(all_cards)
ClampCount(count, available) == IF count > available THEN available ELSE count

\* draw_cards(count, include_reversed): [raised, value]
draw_cards(count, include_reversed, seed) ==
  OrientCards(random_sample(get_all_cards, ClampCount(count, Len(get_all_cards)), seed),
              include_reversed, seed)

(* ----------------------- Interpretation Formatter ---------------------- *)

IsSpace(chunk) == chunk \in {"\n", " ", "\n\n"}

RECURSIVE LStrip(_)
LStrip(chunks) ==
  IF chunks # <<>> /\ IsSpace(Head(chunks)) THEN LStrip(Tail(chunks)) ELSE chunks

RECURSIVE RStrip(_)
RStrip(chunks) ==
  IF chunks # <<>> /\ IsSpace(chunks[Len(chunks)])
  THEN RStrip(SubSeq(chunks, 1, Len(chunks) - 1)) ELSE chunks

\* str.strip()
Strip(chunks) == RStrip(LStrip(chunks))

\* the label, its fallback numbered by the 0-based index itself
PositionLabelCountsFromZero(spread_type, i) ==
  IF i < Len(spreads[spread_type].positions)
  THEN spreads[spread_type].positions[i + 1]
  ELSE <<"Position ", ToString(i)>>

\* the label of the card at 0-based index i
PositionLabel(spread_type, i) ==
  IF i < Len(spreads[spread_type].positions)
  THEN spreads[spread_type].positions[i + 1]
  ELSE <<"Position ", ToString(i + 1)>>

\* the block the loop body appends for the card at 0-based index i
CardEntry(card_info, spread_type, i) ==
  <<"\n">> \o PositionLabel(spread_type, i) \o <<": ">> \o card_info.card.name.s
    \o <<" (">> \o card_info.orientation.s \o <<")", "\n">>
    \o card_info.meaning.s \o <<"\n", "Golden Dawn: ">>
    \o card_info.card.golden_dawn_correspondence.s \o <<"\n", "\n">>

ClosingParagraph ==
  <<"\n", "This reading suggests a journey through the archetypes and energies represented by these sacred symbols. Consider how each card's energy applies to your current situation and the guidance it offers for your path forward.">>

generate_basic_interpretation_no_default(cards, question, spread_type) ==
  LET header == <<"Reading for: ">>
                  \o (IF question.t = "str" THEN question.s ELSE <<"None">>)
                  \o <<"\n", "\n">>
      entries == Flatten([i \in 1..Len(cards) |-> CardEntry(cards[i], spread_type, i - 1)])
  IN  Strip(header \o entries \o ClosingParagraph)

\* _generate_basic_interpretation
generate_basic_interpretation(cards, question, spread_type) ==
  LET header == <<"Reading for: ">>
                  \o (IF Truthy(question) THEN question.s ELSE <<"General guidance">>)
                  \o <<"\n", "\n">>
      entries == Flatten([i \in 1..Len(cards) |-> CardEntry(cards[i], spread_type, i - 1)])
  IN  Strip(header \o entries \o ClosingParagraph)

\* a call of _generate_basic_interpretation and how it ends: the lookup
\* TAROT_SPREADS[spread_type] in the loop body raises KeyError for a name
\* that is not registered, and the loop body runs once per card
format_call(cards, question, spread_type) ==
  IF cards # <<>> /\ spread_type \notin DOMAIN spreads
  THEN [raised |-> TRUE, value |-> <<>>]
  ELSE [raised |-> FALSE, value |-> generate_basic_interpretation(cards, question, spread_type)]

\* get_ai_interpretation: the active path returns the template text; the
\* except branch returns the same
get_ai_interpretation(cards, question, spread_type) ==
  generate_basic_interpretation(cards, question, spread_type)

(* ------------------------------- JSON ---------------------------------- *)

Tok(k) == [k |-> k, s |-> <<>>, n |-> 0]

TokStr(chunks) == [k |-> "str", s |-> chunks, n |-> 0]

TokInt(i) == [k |-> "int", s |-> <<>>, n |-> i]

\* string escaping of the encoder: a newline is written as backslash-n
JsonEscape(chunks) ==
  [i \in DOMAIN chunks |-> IF chunks[i] = "\n" THEN "\\n" ELSE chunks[i]]

JsonUnescape(chunks) ==
  [i \in DOMAIN chunks |-> IF chunks[i] = "\\n" THEN "\n" ELSE chunks[i]]

EncodeScalarNoneAsText(v) ==
  CASE v.t = "none" -> <<TokStr(<<"None">>)>>
    [] v.t = "str"  -> <<TokStr(JsonEscape(v.s))>>
    [] v.t = "int"  -> <<TokInt(v.n)>>
    [] v.t = "bool" -> IF v.b THEN <<Tok("true")>> ELSE <<Tok("false")>>

\* json.dump of None, a str, an int, a bool
EncodeScalar(v) ==
  CASE v.t = "none" -> <<Tok("null")>>
    [] v.t = "str"  -> <<TokStr(JsonEscape(v.s))>>
    [] v.t = "int"  -> <<TokInt(v.n)>>
    [] v.t = "bool" -> IF v.b THEN <<Tok("true")>> ELSE <<Tok("false")>>

RECURSIVE JoinFrom(_, _, _)
JoinFrom(parts, sep, i) ==
  IF i > Len(parts) THEN <<>>
  ELSE IF i = Len(parts) THEN parts[i]
  ELSE parts[i] \o <<sep>> \o JoinFrom(parts, sep, i + 1)

\* the parts in order with the separator between neighbours
JoinTokens(parts, sep) == JoinFrom(parts \o <<>>, sep, 1)

\* json.dump of a dict: keys in insertion order
EncodeDict(keys, values) ==
  <<Tok("{")>>
    \o JoinTokens([i \in DOMAIN keys |-> <<TokStr(<<keys[i]>>), Tok(":")>> \o values[i]],
                  Tok(","))
    \o <<Tok("}")>>

\* json.dump of a list
EncodeList(elems) == <<Tok("[")>> \o JoinTokens(elems, Tok(",")) \o <<Tok("]")>>

CardKeys ==
  <<"name", "number", "suit", "element", "meaning_upright", "meaning_reversed",
    "golden_dawn_correspondence", "hebrew_letter", "astrological_correspondence",
    "tree_of_life_path">>

EncodeCard(card) ==
  EncodeDict(CardKeys, [i \in DOMAIN CardKeys |-> EncodeScalar(card[CardKeys[i]])])

EncodeDrawn(d) ==
  EncodeDict(<<"card", "reversed", "meaning", "orientation">>,
             <<EncodeCard(d.card), EncodeScalar(d.reversed), EncodeScalar(d.meaning),
               EncodeScalar(d.orientation)>>)

\* json.dump(reading_dict, f): the document save_reading writes
EncodeReading(r) ==
  EncodeDict(<<"spread_type", "question", "cards_drawn", "interpretation",
               "timestamp", "reading_id">>,
             <<EncodeScalar(r.spread_type), EncodeScalar(r.question),
               EncodeList([i \in DOMAIN r.cards_drawn |-> EncodeDrawn(r.cards_drawn[i])]),
               EncodeScalar(r.interpretation), EncodeScalar(r.timestamp),
               EncodeScalar(r.reading_id)>>)

ParseFail == [ok |-> FALSE, val |-> PyNone, next |-> 0]

ParseOk(v, next) == [ok |-> TRUE, val |-> v, next |-> next]

EmptyDict == [k \in {} |-> PyNone]

RECURSIVE ParseValue(_, _)
RECURSIVE ParseMembers(_, _, _)
RECURSIVE ParseElements(_, _, _)

\* after the value v of the member named key: a comma and the next member,
\* or the closing brace
AfterMember(toks, key, acc, v) ==
  IF ~v.ok \/ v.next > Len(toks) THEN ParseFail
  ELSE CASE toks[v.next].k = "," -> ParseMembers(toks, v.next + 1, (key :> v.val) @@ acc)
         [] toks[v.next].k = "}" -> ParseOk((key :> v.val) @@ acc, v.next + 1)
         [] OTHER -> ParseFail

\* the members of an object from token i on, up to its closing brace
ParseMembers(toks, i, acc) ==
  IF i + 1 > Len(toks) \/ toks[i].k # "str" \/ Len(toks[i].s) # 1 \/ toks[i + 1].k # ":"
  THEN ParseFail
  ELSE AfterMember(toks, toks[i].s[1], acc, ParseValue(toks, i + 2))

\* after the element v: a comma and the next element, or the closing bracket
AfterElement(toks, acc, v) ==
  IF ~v.ok \/ v.next > Len(toks) THEN ParseFail
  ELSE CASE toks[v.next].k = "," -> ParseElements(toks, v.next + 1, Append(acc, v.val))
         [] toks[v.next].k = "]" -> ParseOk(Append(acc, v.val), v.next + 1)
         [] OTHER -> ParseFail

\* the elements of an array from token i on, up to its closing bracket
ParseElements(toks, i, acc) == AfterElement(toks, acc, ParseValue(toks, i))

\* one JSON value starting at token i: [ok, val, next]
ParseValue(toks, i) ==
  IF i > Len(toks) THEN ParseFail
  ELSE CASE toks[i].k = "str"   -> ParseOk(PyStr(JsonUnescape(toks[i].s)), i + 1)
         [] toks[i].k = "int"   -> ParseOk(PyInt(toks[i].n), i + 1)
         [] toks[i].k = "true"  -> ParseOk(PyBool(TRUE), i + 1)
         [] toks[i].k = "false" -> ParseOk(PyBool(FALSE), i + 1)
         [] toks[i].k = "null"  -> ParseOk(PyNone, i + 1)
         [] toks[i].k = "{" ->
              IF i + 1 <= Len(toks) /\ toks[i + 1].k = "}"
              THEN ParseOk(EmptyDict, i + 2)
              ELSE ParseMembers(toks, i + 1, EmptyDict)
         [] toks[i].k = "[" ->
              IF i + 1 <= Len(toks) /\ toks[i + 1].k = "]"
              THEN ParseOk(<<>>, i + 2)
              ELSE ParseElements(toks, i + 1, <<>>)
         [] OTHER -> ParseFail

\* the whole input must be one value, else JSONDecodeError
WholeDocument(toks, v) ==
  IF v.ok /\ v.next = Len(toks) + 1
  THEN [raised |-> FALSE, value |-> v.val]
  ELSE [raised |-> TRUE, value |-> EmptyDict]

\* json.load(f)
json_load(toks) == WholeDocument(toks, ParseValue(toks, 1))

(* --------------------------- Reading Store ----------------------------- *)

HTTPException(status_code, detail) ==
  [type |-> "HTTPException", status |-> status_code, detail |-> detail]

OSError(detail) == [type |-> "OSError", status |-> 0, detail |-> detail]

ValueError(detail) == [type |-> "ValueError", status |-> 0, detail |-> detail]

JSONDecodeError == [type |-> "JSONDecodeError", status |-> 0, detail |-> <<"Expecting value">>]

NoException == [type |-> "none", status |-> 0, detail |-> <<>>]

\* str(e): an HTTPException prints as "<status>: <detail>"
StrOfException(e) ==
  IF e.type = "HTTPException" THEN <<ToString(e.status), ": ">> \o e.detail ELSE e.detail

\* what the file system does to one save: the write goes through, open()
\* fails before the file is touched, or the write fails after open() has
\* truncated the file and cut tokens have reached it
IoOutcomes ==
  {[kind |-> "ok", cut |-> 0], [kind |-> "open_fails", cut |-> 0]}
    \cup {[kind |-> "write_fails", cut |-> c] : c \in 0..MaxCut}

Min(a, b) == IF a < b THEN a ELSE b

\* class TarotReading, as reading.dict() renders it
TarotReading(spread_type, question, cards_drawn, interpretation, timestamp, reading_id) ==
  [spread_type |-> spread_type, question |-> question, cards_drawn |-> cards_drawn,
   interpretation |-> interpretation, timestamp |-> timestamp, reading_id |-> reading_id]

\* what a write that fails after cut tokens leaves in the file
Truncated(doc, cut) == SubSeq(doc, 1, Min(cut, Len(doc) - 1))

WriteFileRemovesPartial(files, reading_file, doc, io) ==
  CASE io.kind = "ok" ->
         [raised |-> FALSE, exc |-> NoException, files |-> (reading_file :> doc) @@ files]
    [] io.kind = "open_fails" ->
         [raised |-> TRUE, exc |-> OSError(<<"[Errno 13] Permission denied">>),
          files |-> files]
    [] io.kind = "write_fails" ->
         [raised |-> TRUE, exc |-> OSError(<<"[Errno 28] No space left on device">>),
          files |-> [f \in DOMAIN files \ {reading_file} |-> files[f]]]

WriteFileSwallows(files, reading_file, doc, io) ==
  CASE io.kind = "ok" ->
         [raised |-> FALSE, exc |-> NoException, files |-> (reading_file :> doc) @@ files]
    [] io.kind = "open_fails" ->
         [raised |-> FALSE, exc |-> NoException, files |-> files]
    [] io.kind = "write_fails" ->
         [raised |-> FALSE, exc |-> NoException,
          files |-> (reading_file :> Truncated(doc, io.cut)) @@ files]

\* the file opened for appending
WriteFileAppends(files, reading_file, doc, io) ==
  CASE io.kind = "ok" ->
         [raised |-> FALSE, exc |-> NoException,
          files |-> (reading_file :> ((IF reading_file \in DOMAIN files
                                        THEN files[reading_file] ELSE <<>>) \o doc))
                      @@ files]
    [] io.kind = "open_fails" ->
         [raised |-> TRUE, exc |-> OSError(<<"[Errno 13] Permission denied">>),
          files |-> files]
    [] io.kind = "write_fails" ->
         [raised |-> TRUE, exc |-> OSError(<<"[Errno 28] No space left on device">>),
          files |-> (reading_file :> Truncated(doc, io.cut)) @@ files]

\* with open(reading_file, 'w') as f: json.dump(reading_dict, f); the except
\* clause logs and re-raises
WriteFile(files, reading_file, doc, io) ==
  CASE io.kind = "ok" ->
         [raised |-> FALSE, exc |-> NoException, files |-> (reading_file :> doc) @@ files]
    [] io.kind = "open_fails" ->
         [raised |-> TRUE, exc |-> OSError(<<"[Errno 13] Permission denied">>),
          files |-> files]
    [] io.kind = "write_fails" ->
         [raised |-> TRUE, exc |-> OSError(<<"[Errno 28] No space left on device">>),
          files |-> (reading_file :> Truncated(doc, io.cut)) @@ files]

\* save_reading: the file is named by the reading id and holds the dump of
\* reading.dict() with its timestamp entry set again from reading.timestamp
save_reading(files, reading, io) ==
  WriteFile(files, reading.reading_id.s,
            EncodeReading([reading EXCEPT !.timestamp = reading.timestamp]), io)

(* ------------------------------ API Layer ------------------------------ *)

SuffixLo == 1000

SuffixHi == 9999

\* the values random.randint(1000, 9999) is drawn from
Suffixes == SuffixLo..Min(SuffixHi, SuffixLo + MaxSuffixSpan)

\* datetime.now().strftime('%Y%m%d_%H%M%S'): the clock to the second
Strftime(t) == ToString(t)

\* datetime.now(timezone.utc).isoformat()
IsoFormat(t) == <<ToString(t), "+00:00">>

\* f"reading_{...strftime...}_{random.randint(1000, 9999)}"
MakeReadingId(t, suffix) == <<"reading_", Strftime(t), "_", ToString(suffix)>>

NoReading == <<>>

ErrorResponse(e) ==
  [status |-> e.status, detail |-> e.detail, success |-> FALSE,
   reading |-> NoReading, message |-> <<>>]

\* JSONResponse(content={"success": True, "reading": {...}, "message": ...})
CreatedResponse(reading) ==
  [status |-> 200, detail |-> <<>>, success |-> TRUE,
   reading |-> <<[reading EXCEPT !.timestamp = reading.timestamp]>>,
   message |-> <<"Reading completed successfully: ">> \o reading.reading_id.s]

\* {"reading": reading_data}
FoundResponse(reading_data) ==
  [status |-> 200, detail |-> <<>>, success |-> FALSE,
   reading |-> <<reading_data>>, message |-> <<>>]

\* what the try block of create_reading leaves behind
Outcome(raised, exc, files, reading, drew, cards, reading_id, io) ==
  [raised |-> raised, exc |-> exc, files |-> files, reading |-> reading,
   drew |-> drew, cards |-> cards, reading_id |-> reading_id, io |-> io]

\* await tarot_service.save_reading(reading), then the return statement
SaveStep(reading, cards, io, saved) ==
  Outcome(saved.raised, saved.exc, saved.files,
          IF saved.raised THEN NoReading ELSE <<reading>>,
          TRUE, cards, reading.reading_id.s, io.kind)

\* reading_id and the TarotReading object, then the save
BuildStep(files, t, spread_type, question, suffix, io, cards, interpretation) ==
  SaveStep(TarotReading(PyStr(<<spread_type>>), question, cards.value,
                        PyStr(interpretation), PyStr(IsoFormat(t)),
                        PyStr(MakeReadingId(t, suffix))),
           cards, io,
           save_reading(files,
                        TarotReading(PyStr(<<spread_type>>), question, cards.value,
                                     PyStr(interpretation), PyStr(IsoFormat(t)),
                                     PyStr(MakeReadingId(t, suffix))),
                        io))

\* after draw_cards: the interpretation
FormatStep(files, t, spread_type, question, suffix, io, cards) ==
  IF cards.raised
  THEN Outcome(TRUE, ValueError(<<"Sample larger than population or is negative">>),
               files, NoReading, TRUE, cards, <<>>, "none")
  ELSE BuildStep(files, t, spread_type, question, suffix, io, cards,
                 get_ai_interpretation(cards.value, question, spread_type))

\* the try block of create_reading
CreateReadingBody(files, t, spread_type, question, include_reversed, seed, suffix, io) ==
  IF spread_type \notin DOMAIN spreads
  THEN Outcome(TRUE, HTTPException(400, <<"Unknown spread type: ", spread_type>>),
               files, NoReading, FALSE, [raised |-> FALSE, value |-> <<>>], <<>>, "none")
  ELSE FormatStep(files, t, spread_type, question, suffix, io,
                  draw_cards(spreads[spread_type].card_count, include_reversed, seed))

\* the except clause of create_reading: every exception, the handler's own
\* HTTPException included, becomes a 500 carrying str(e)
CreateReadingExcept(b) ==
  [files |-> b.files, drew |-> b.drew, cards |-> b.cards,
   reading_id |-> b.reading_id, io |-> b.io,
   response |-> IF b.raised
                THEN ErrorResponse(HTTPException(500, StrOfException(b.exc)))
                ELSE CreatedResponse(b.reading[1])]

\* create_reading
create_reading(files, t, spread_type, question, include_reversed, seed, suffix, io) ==
  CreateReadingExcept(CreateReadingBody(files, t, spread_type, question,
                                        include_reversed, seed, suffix, io))

\* the rest of get_reading's try block once the file exists
ReadFile(reading_data) ==
  IF reading_data.raised
  THEN ErrorResponse(HTTPException(500, StrOfException(JSONDecodeError)))
  ELSE FoundResponse(reading_data.value)

\* get_reading: the try block raises 404 for a missing file, and the final
\* except clause turns every exception that is not FileNotFoundError, that
\* HTTPException included, into a 500
get_reading(files, reading_id) ==
  IF reading_id \notin DOMAIN files
  THEN ErrorResponse(HTTPException(500,
         StrOfException(HTTPException(404, <<"Reading not found">>))))
  ELSE ReadFile(json_load(files[reading_id]))

(* ------------------------------ requests ------------------------------- *)

Questions == {PyNone, PyStr(<<>>), PyStr(<<"What lies ahead?">>)}

SpreadTypes == DOMAIN TAROT_SPREADS \cup {"nonexistent"}

\* every identifier the service can generate, and one it never does
ReadingIds ==
  {MakeReadingId(t, x) : t \in 0..MaxClock, x \in Suffixes} \cup {<<"reading_never_saved">>}

Request(kind, spread_type, question, include_reversed, count, seed, reading_id, io) ==
  [kind |-> kind, spread_type |-> spread_type, question |-> question,
   include_reversed |-> include_reversed, count |-> count, seed |-> seed,
   reading_id |-> reading_id, io |-> io]

NoRequest == Request("none", "", PyNone, FALSE, 0, 0, <<>>, "none")

NoResponse ==
  [status |-> 0, detail |-> <<>>, success |-> FALSE, reading |-> NoReading, message |-> <<>>]

NoFiles == [f \in {} |-> <<>>]

\* a slot of the event loop that holds no request yet
IdleTask ==
  [pc |-> "idle", spread_type |-> "", question |-> PyNone, include_reversed |-> FALSE,
   reading_id |-> <<>>, io |-> "none", response |-> NoResponse, turn |-> 0]

Init ==
  /\ spreads = TAROT_SPREADS
  /\ store = NoFiles
  /\ now = 0
  /\ request = NoRequest
  /\ response = NoResponse
  /\ drawn = [raised |-> FALSE, value |-> <<>>]
  /\ handled = 0
  /\ formatted = [raised |-> FALSE, value |-> <<>>]
  /\ tasks = [k \in 1..MaxTasks |-> IdleTask]

\* The handlers are coroutines of one event loop.  create_reading awaits only
\* get_ai_interpretation and save_reading, neither of which suspends (they
\* call no I/O awaitable), so a handler runs from its first line to its
\* response without another handler in between: one action per request.

\* the handler's result r becomes the next state
Respond(r, req) ==
  /\ store' = r.files
  /\ response' = r.response
  /\ request' = [req EXCEPT !.reading_id = r.reading_id, !.io = r.io]
  /\ handled' = handled + 1
  /\ UNCHANGED <<spreads, now, drawn, formatted, tasks>>

\* POST /reading
CreateReading ==
  /\ handled < MaxRequests
  /\ \E spread_type \in SpreadTypes, question \in Questions, include_reversed \in BOOLEAN,
        seed \in 0..MaxSeed, suffix \in Suffixes, io \in IoOutcomes :
       Respond(create_reading(store, now, spread_type, question, include_reversed,
                              seed, suffix, io),
               Request("POST", spread_type, question, include_reversed, 0, 0, <<>>, "none"))

\* GET /reading/{reading_id}
GetReading ==
  /\ handled < MaxRequests
  /\ \E reading_id \in ReadingIds :
       /\ response' = get_reading(store, reading_id)
       /\ request' = Request("GET", "", PyNone, FALSE, 0, 0, reading_id, "none")
       /\ handled' = handled + 1
       /\ UNCHANGED <<spreads, store, now, drawn, formatted, tasks>>

\* time passes
Tick ==
  /\ now < MaxClock
  /\ now' = now + 1
  /\ UNCHANGED <<spreads, store, request, response, drawn, handled, formatted, tasks>>

Next == CreateReading \/ GetReading \/ Tick

Spec == Init /\ [][Next]_vars

\* a direct call of draw_cards
DrawCards ==
  \E count \in -1..MaxCount, include_reversed \in BOOLEAN, seed \in 0..MaxSeed :
    /\ drawn' = draw_cards(count, include_reversed, seed)
    /\ request' = Request("DRAW", "", PyNone, include_reversed, count, seed, <<>>, "none")
    /\ UNCHANGED <<spreads, store, now, response, handled, formatted, tasks>>

NextDraw == DrawCards

SpecDraw == Init /\ [][NextDraw]_vars

\* the direct calls of _generate_basic_interpretation: a hand of count cards
\* for a spread name, whatever the number of positions of that spread
FormatCalls ==
  {Request("FORMAT_CALL", spread_type, question, include_reversed, count, seed, <<>>, "none") :
     spread_type \in SpreadTypes, question \in Questions, include_reversed \in BOOLEAN,
     count \in 0..MaxCount, seed \in 0..MaxSeed}

InitFormat ==
  /\ spreads = TAROT_SPREADS
  /\ store = NoFiles
  /\ now = 0
  /\ request \in FormatCalls
  /\ response = NoResponse
  /\ drawn = [raised |-> FALSE, value |-> <<>>]
  /\ handled = 0
  /\ formatted = [raised |-> FALSE, value |-> <<>>]
  /\ tasks = [k \in 1..MaxTasks |-> IdleTask]

\* the call is made: the hand is drawn and formatted
FormatCards ==
  /\ request.kind = "FORMAT_CALL"
  /\ drawn' = draw_cards(request.count, request.include_reversed, request.seed)
  /\ formatted' = format_call(drawn'.value, request.question, request.spread_type)
  /\ request' = [request EXCEPT !.kind = "FORMAT"]
  /\ UNCHANGED <<spreads, store, now, response, handled, tasks>>

NextFormat == FormatCards

SpecFormat == InitFormat /\ [][NextFormat]_vars

\* Requests in flight together.  uvicorn.run(app) serves every connection
\* from one event loop in one process; a request that has arrived waits as a
\* task until the loop runs its handler, and the loop runs the waiting
\* handlers in any order.  create_reading never suspends, so the run of a
\* handler is one step.

\* the bodies of the requests in flight: include_reversed is left out of
\* them and takes the default of ReadingRequest
DefaultIncludeReversed == {TRUE}

\* a POST /reading arrives and waits for the event loop
Arrive ==
  \E k \in 1..MaxTasks, spread_type \in SpreadTypes, question \in Questions,
     include_reversed \in DefaultIncludeReversed :
    /\ tasks[k].pc = "idle"
    /\ \A j \in 1..(k - 1) : tasks[j].pc # "idle"
    /\ tasks' = [tasks EXCEPT ![k] = [IdleTask EXCEPT !.pc = "ready",
                                                     !.spread_type = spread_type,
                                                     !.question = question,
                                                     !.include_reversed = include_reversed]]
    /\ UNCHANGED <<spreads, store, now, request, response, drawn, handled, formatted>>

\* the handler of task k has run to its response r
Finish(k, r) ==
  /\ store' = r.files
  /\ response' = r.response
  /\ request' = Request("POST", tasks[k].spread_type, tasks[k].question,
                        tasks[k].include_reversed, 0, 0, r.reading_id, r.io)
  /\ handled' = handled + 1
  /\ tasks' = [tasks EXCEPT ![k] = [@ EXCEPT !.pc = "done", !.reading_id = r.reading_id,
                                             !.io = r.io, !.response = r.response,
                                             !.turn = handled + 1]]
  /\ UNCHANGED <<spreads, now, drawn, formatted>>

\* the event loop runs the handler of a waiting request
RunTask ==
  \E k \in 1..MaxTasks, seed \in 0..MaxSeed, suffix \in Suffixes, io \in IoOutcomes :
    /\ tasks[k].pc = "ready"
    /\ Finish(k, create_reading(store, now, tasks[k].spread_type, tasks[k].question,
                                tasks[k].include_reversed, seed, suffix, io))

NextConc == Arrive \/ RunTask

SpecConc == Init /\ [][NextConc]_vars

(* ------------------------------- claims -------------------------------- *)

Range(seq) == {seq[i] : i \in DOMAIN seq}

\* part occurs in text as a run of neighbouring chunks
Contains(text, part) ==
  \E i \in 1..(Len(text) - Len(part) + 1) : SubSeq(text, i, i + Len(part) - 1) = part

IsPost == request.kind = "POST"

IsGet == request.kind = "GET"

IsDraw == request.kind = "DRAW"

\* C1: a POST /reading whose spread_type is not a key of the spread catalog is
\* answered with status 400 and a detail that names the spread type.
C1_UnknownSpreadIsClientError ==
  (IsPost /\ request.spread_type \notin DOMAIN spreads)
    => /\ response.status = 400
       /\ request.spread_type \in Range(response.detail)

\* C2: a GET /reading/{id} for an id with no file in the store is answered
\* with status 404, never with a server error.
C2_MissingReadingIsNotFound ==
  (IsGet /\ request.reading_id \notin DOMAIN store) => response.status = 404

\* C3: round trip. When POST /reading has answered with success, the save of
\* its reading r has succeeded, and loading by r's identifier through
\* get_reading returns a reading equal to r in every field.
C3_RoundTrip ==
  (IsPost /\ response.status = 200)
    => /\ response.reading[1].reading_id.s \in DOMAIN store
       /\ get_reading(store, response.reading[1].reading_id.s)
            = FoundResponse(response.reading[1])

C3_Witness ==
  /\ IsPost
  /\ response.status = 200
  /\ response.reading[1].question = PyNone
  /\ Len(response.reading[1].cards_drawn) = 10
  /\ \E i \in 1..10 : response.reading[1].cards_drawn[i].reversed = PyBool(TRUE)

\* the stored document d, if it is a reading at all, has as many cards as the
\* spread it names asks for
CardCountMatches(d) ==
  ~d.raised => Len(d.value.cards_drawn) = spreads[d.value.spread_type.s[1]].card_count

\* C4: every reading held in the store has exactly as many drawn cards as the
\* card_count of the spread it names.
C4_StoredCardCount ==
  \A id \in DOMAIN store : CardCountMatches(json_load(store[id]))

HoldsTenCards(d) == ~d.raised /\ Len(d.value.cards_drawn) = 10

C4_Witness ==
  /\ Cardinality(DOMAIN store) = 2
  /\ \E id \in DOMAIN store : HoldsTenCards(json_load(store[id]))

\* C5 as stated: once a file exists, no step changes its content or removes it.
C5_WrittenOnce ==
  [][\A id \in DOMAIN store : id \in DOMAIN store' /\ store'[id] = store[id]]_vars

\* C5 as amended: no step removes a file, and a step changes the content of an
\* existing file only if it is a POST /reading that generated that file's
\* identifier and whose save opened the file.
C5_ChangedOnlyBySaveToSameId ==
  [][\A id \in DOMAIN store :
       /\ id \in DOMAIN store'
       /\ store'[id] # store[id]
            => /\ request'.kind = "POST"
               /\ request'.reading_id = id
               /\ request'.io \in {"ok", "write_fails"}]_vars

C5_Witness ==
  /\ handled = 2
  /\ IsPost
  /\ Cardinality(DOMAIN store) = 2
  /\ request.io = "ok"

\* C6: POST /reading answers with success and a reading only when the save of
\* that reading has completed (the file holds the whole document), and when
\* the save fails it answers with status 500 and no reading.
C6_SavedOrNotReturned ==
  IsPost =>
    /\ response.status = 200 =>
         /\ response.success
         /\ Len(response.reading) = 1
         /\ request.io = "ok"
         /\ response.reading[1].reading_id.s \in DOMAIN store
         /\ store[response.reading[1].reading_id.s] = EncodeReading(response.reading[1])
    /\ request.io \in {"open_fails", "write_fails"} =>
         /\ response.status = 500
         /\ ~response.success
         /\ response.reading = NoReading
    /\ response.status # 200 => response.reading = NoReading

C6_Witness ==
  /\ IsPost
  /\ request.io = "write_fails"
  /\ response.status = 500
  /\ request.reading_id \in DOMAIN store

\* C7: for every count >= 0 and either value of include_reversed, draw_cards
\* raises nothing and returns exactly min(count, catalog size) cards, no two
\* of which have the same name.
C7_DrawLengthAndDistinct ==
  (IsDraw /\ request.count >= 0)
    => /\ ~drawn.raised
       /\ Len(drawn.value) = Min(request.count, Len(get_all_cards))
       /\ \A i, j \in DOMAIN drawn.value :
            drawn.value[i].card.name = drawn.value[j].card.name => i = j

C7_Witness ==
  /\ IsDraw
  /\ request.count > Len(get_all_cards)
  /\ ~drawn.raised
  /\ Len(drawn.value) = Len(get_all_cards)

\* C8: draw_cards(count, include_reversed=False) returns only cards whose
\* reversed flag is False, whose orientation is "Upright" and whose meaning is
\* the card's upright meaning.
C8_UprightWhenNotReversed ==
  (IsDraw /\ ~request.include_reversed)
    => \A i \in DOMAIN drawn.value :
         /\ drawn.value[i].reversed = PyBool(FALSE)
         /\ drawn.value[i].orientation = PyStr(<<"Upright">>)
         /\ drawn.value[i].meaning = drawn.value[i].card.meaning_upright

C8_Witness ==
  /\ IsDraw
  /\ ~request.include_reversed
  /\ Len(drawn.value) = 10
  /\ random_choice(request.seed, 10, 1)

\* C9: every registered spread's card_count is the length of its positions
\* list (10 for celtic_cross), and the catalog the process holds is the one
\* it was defined with.
C9_CardCountIsPositions ==
  /\ spreads = TAROT_SPREADS
  /\ \A k \in DOMAIN spreads : spreads[k].card_count = Len(spreads[k].positions)
  /\ spreads["celtic_cross"].card_count = 10
  /\ Len(spreads["celtic_cross"].positions) = 10

C9_Witness ==
  /\ handled = 2
  /\ IsPost
  /\ request.spread_type = "celtic_cross"
  /\ response.status = 200

\* C10: for every registered spread, a POST /reading with include_reversed
\* false and no question, whose save goes through, succeeds with a reading of
\* exactly card_count cards, all upright, and an interpretation that contains
\* every drawn card's name and "General guidance".
C10_UprightReading ==
  ( /\ IsPost
    /\ request.spread_type \in DOMAIN spreads
    /\ ~request.include_reversed
    /\ request.question = PyNone
    /\ request.io = "ok" )
    => /\ response.status = 200
       /\ response.success
       /\ Len(response.reading) = 1
       /\ Len(response.reading[1].cards_drawn) = spreads[request.spread_type].card_count
       /\ \A i \in DOMAIN response.reading[1].cards_drawn :
            /\ response.reading[1].cards_drawn[i].reversed = PyBool(FALSE)
            /\ response.reading[1].cards_drawn[i].orientation = PyStr(<<"Upright">>)
            /\ Contains(response.reading[1].interpretation.s,
                        response.reading[1].cards_drawn[i].card.name.s)
       /\ Contains(response.reading[1].interpretation.s, <<"General guidance">>)

C10_Witness ==
  /\ IsPost
  /\ request.spread_type = "three_card"
  /\ ~request.include_reversed
  /\ request.question = PyNone
  /\ response.status = 200
  /\ Len(response.reading[1].cards_drawn) = 3

IsFormat == request.kind = "FORMAT"

\* where the entries of a text are: each entry has one ": " between its label
\* and its card name, and nothing else of the text is that chunk
SeparatorAt(text) == {k \in DOMAIN text : text[k] = ": "}

NthSeparator(text, n) ==
  CHOOSE k \in SeparatorAt(text) : Cardinality({j \in SeparatorAt(text) : j <= k}) = n

\* what entry n (1-based) of the text must show for the n-th card of the hand
EntryShows(text, k, card_info, positions, n) ==
  /\ SubSeq(text, k + 1, k + 4)
       = card_info.card.name.s \o <<" (">> \o card_info.orientation.s \o <<")">>
  /\ IF n <= Len(positions)
     THEN SubSeq(text, k - Len(positions[n]), k - 1) = positions[n]
     ELSE SubSeq(text, k - 2, k - 1) = <<"Position ", ToString(n)>>

\* C11: for a registered spread, _generate_basic_interpretation does not fail
\* however many cards it is given, its text has exactly one entry per card, in
\* the order of the hand, and the entry of the card at 0-based index i is
\* labelled positions[i] while i < len(positions) and "Position {i+1}" from
\* there on.
C11_EntryPerCardLabelled ==
  (IsFormat /\ request.spread_type \in DOMAIN spreads) =>
    /\ ~formatted.raised
    /\ Cardinality(SeparatorAt(formatted.value)) = Len(drawn.value)
    /\ \A n \in 1..Len(drawn.value) :
         EntryShows(formatted.value, NthSeparator(formatted.value, n), drawn.value[n],
                    spreads[request.spread_type].positions, n)

\* three cards formatted for the one-position spread
C11_Witness ==
  /\ IsFormat
  /\ request.spread_type = "single_card"
  /\ Len(drawn.value) = 3
  /\ ~formatted.raised
  /\ Contains(formatted.value, <<"Guidance", ": ">>)
  /\ Contains(formatted.value, <<"Position ", "3", ": ">>)

\* task k has answered and its handler generated the identifier id
Generated(k, id) == tasks[k].pc = "done" /\ tasks[k].reading_id = id /\ id # <<>>

\* b is the task whose save to id ran last
SavedLast(b, id) ==
  /\ Generated(b, id)
  /\ \A c \in DOMAIN tasks : Generated(c, id) => tasks[c].turn <= tasks[b].turn

\* the file of id holds the reading of task b and nothing else, and a lookup
\* of id returns that reading
HoldsInFull(id, reading) ==
  /\ id \in DOMAIN store
  /\ store[id] = EncodeReading(reading)
  /\ get_reading(store, id) = FoundResponse(reading)

\* C12: when two POST /reading requests in flight together generate the same
\* identifier and the file system carries out both saves, then in whichever
\* order the event loop ran them both have answered with success and their
\* reading, and the file of that identifier holds exactly the reading of the
\* request whose save ran last: it parses, a lookup returns that reading, and
\* so the reading of the earlier request is not what a lookup returns.
C12_LastSaveWinsInFull ==
  \A a, b \in DOMAIN tasks :
    (/\ a # b
     /\ Generated(a, tasks[b].reading_id)
     /\ SavedLast(b, tasks[b].reading_id)
     /\ tasks[a].io = "ok"
     /\ tasks[b].io = "ok")
      => /\ tasks[a].response.status = 200 /\ tasks[a].response.success
         /\ tasks[b].response.status = 200 /\ tasks[b].response.success
         /\ Len(tasks[a].response.reading) = 1
         /\ Len(tasks[b].response.reading) = 1
         /\ HoldsInFull(tasks[b].reading_id, tasks[b].response.reading[1])
         /\ tasks[a].response.reading # tasks[b].response.reading
              => get_reading(store, tasks[b].reading_id).reading # tasks[a].response.reading

\* the request that arrived second ran first; the ten-card reading of the
\* first landed on the one-card reading of the second
C12_Witness ==
  /\ Generated(1, tasks[2].reading_id)
  /\ Generated(2, tasks[1].reading_id)
  /\ tasks[2].turn = 1
  /\ tasks[1].turn = 2
  /\ tasks[1].io = "ok"
  /\ tasks[2].io = "ok"
  /\ tasks[1].spread_type = "celtic_cross"
  /\ tasks[2].spread_type = "single_card"
  /\ tasks[1].response.status = 200
  /\ tasks[2].response.status = 200
  /\ Len(json_load(store[tasks[1].reading_id]).value.cards_drawn) = 10

\* C13: a POST /reading that is answered with an error leaves the store as it
\* was before the request: no file is created, truncated or altered.
C13_ErrorLeavesStoreUnchanged ==
  [][(request'.kind = "POST" /\ handled' = handled + 1 /\ response'.status # 200)
       => store' = store]_vars

====
